---- MODULE Spec2Model ----
(***************************************************************************)
(* Model of cmd/vic-machine/debug/debug.go: the Debug command's workflow   *)
(* (Debug.processParams and Debug.Run).  One run of Run is one behaviour:  *)
(* pc is the position in Run, calls is the sequence of calls Run has made  *)
(* to its collaborators, err is Run's local variable err and ret is the    *)
(* value Run returned.                                                     *)
(***************************************************************************)
EXTENDS Integers, Sequences, FiniteSets, TLC

VARIABLES
    d,          \* the Debug struct: embedded data.Data fields and the flags
    args,       \* cli.Args()
    pc,         \* position in Run
    ctx,        \* the context made by context.WithTimeout
    logLevel,   \* the log level set through log.SetLevel
    err,        \* Run's local variable err
    vch,        \* the handle the lookup returned
    vchConfig,  \* the configuration GetVCHConfig returned
    key,        \* the content read from the key file
    calls,      \* calls made to the collaborators, in order
    ret,        \* what Run returned; NotReturned while it runs
    appliance,  \* the debug access of the appliance the selector names
    endpoints,  \* the endpoints InspectVCH reported in this run
    runs        \* the earlier runs of the same request: what each left

vars == <<d, args, pc, ctx, logLevel, err, vch, vchConfig, key, calls, ret,
          appliance, endpoints, runs>>

----------------------------------------------------------------------------
(* Bounds *)

\* cli.Args() holds at most MaxArgs arguments
MaxArgs == 1
\* d.Debug.Debug ranges over 0..MaxDebug
MaxDebug == 1
\* d.Timeout ranges over 0..MaxTimeout ticks of the clock
MaxTimeout == 2
\* the selector matches 0..MaxMatches appliances
MaxMatches == 2
\* the command is run at most MaxRuns times with the same request
MaxRuns == 2

----------------------------------------------------------------------------
(* Values *)

Nil == "nil"
NotReturned == "not returned"

IDs == {"", "vch-42"}
ComputePaths == {"", "/dc1/host/cluster1"}
DisplayNames == {"", "vch-test"}
KeyPaths == {"", "id_rsa.pub", "empty.pub"}
Passwords == {"", "secret"}

\* the error of a collaborator: which call failed and why
Failure(fn, cause) == [fn |-> fn, cause |-> cause]
NoError == [fn |-> "", cause |-> Nil]

\* the errors Run makes itself with errors.New
ErrInvalidArgs == "invalid CLI arguments"
ErrDebugFailed == "Debug failed"
ErrLoadKey == "unable to load public key"
ErrInspectFailed == "inspect failed"
\* the error of HasCredentials, returned as it is
ErrCredentials == "HasCredentials error"

BoolStr(b) == IF b THEN "true" ELSE "false"

\* a call to a collaborator; result is Pending until the call returns
Pending == "pending"
Call(fn, a, r) == [fn |-> fn, args |-> a, result |-> r]

\* the last call returns r
Returned(r) == [calls EXCEPT ![Len(calls)].result = r]

Lookups == {"NewVCHFromID", "NewVCHFromComputePath"}
Collect == "CollectDiagnosticLogs"

----------------------------------------------------------------------------
(* The context and its deadline *)

\* context.WithTimeout(context.Background(), d.Timeout): a deadline that is
\* not in the future is expired from the start
WithTimeout(timeout) ==
    [created |-> TRUE, elapsed |-> 0,
     done |-> (timeout <= 0),
     expiredAt |-> IF timeout <= 0 THEN "WithTimeout" ELSE ""]

NoContext == [created |-> FALSE, elapsed |-> 0, done |-> FALSE, expiredAt |-> ""]

\* time passes while Run is between WithTimeout and its return; expiredAt
\* keeps the position of Run at the moment the deadline passes
Tick ==
    /\ ctx.created
    /\ pc # "done"
    /\ ~ctx.done
    /\ ctx.elapsed < d.Timeout
    /\ ctx' = [ctx EXCEPT !.elapsed = @ + 1,
                          !.done = (ctx.elapsed + 1 >= d.Timeout),
                          !.expiredAt = IF ctx.elapsed + 1 >= d.Timeout
                                        THEN pc ELSE ""]
    /\ UNCHANGED <<d, args, pc, logLevel, err, vch, vchConfig, key, calls, ret>>
    /\ UNCHANGED <<appliance, endpoints, runs>>

\* a collaborator that runs under the context aborts when the deadline has
\* passed, and otherwise succeeds or fails
Outcomes == IF ctx.done THEN {"DeadlineExceeded"} ELSE {Nil, "Failed"}

\* the lookup finds n appliances for the selector and returns a handle when
\* it finds exactly one
LookupOutcomes ==
    {r \in [o : Outcomes, n : 0..MaxMatches] :
        /\ (r.o = Nil) => (r.n = 1)
        /\ (r.o = "Failed") => (r.n # 1)}

\* the endpoints of an appliance: the SSH endpoint, with the keys it
\* accepts, is among them when the SSH server runs
Endpoints(a) ==
    {"docker-api", "vic-admin"} \cup (IF a.ssh THEN {"ssh"} \cup a.keys ELSE {})

\* the configuration GetVCHConfig reads back from an appliance in state a
Snapshot(a) == [version |-> "v1", endpoints |-> Endpoints(a), debug |-> a]

\* a successful DebugVCH: the SSH server runs (DebugVCH is given no flag),
\* the key, if any, is among the authorized keys of root, and the password,
\* if any, is the password of root
ApplyDebug(a, password, k) ==
    [ssh |-> TRUE,
     keys |-> IF k # "" THEN a.keys \cup {k} ELSE a.keys,
     rootpw |-> IF password # "" THEN password ELSE a.rootpw]

\* a failed DebugVCH leaves any part of the change applied
PartialDebug(a, password, k) ==
    LET full == ApplyDebug(a, password, k) IN
    {[ssh |-> s, keys |-> ks, rootpw |-> p] :
        s \in {a.ssh, full.ssh}, ks \in {a.keys, full.keys},
        p \in {a.rootpw, full.rootpw}}

\* the appliance after the DebugVCH call c returned o
AfterDebugVCH(a, c, o) ==
    IF o = Nil
    THEN {ApplyDebug(a, c.args[3], c.args[4])}
    ELSE PartialDebug(a, c.args[3], c.args[4])

\* CollectDiagnosticLogs returns nothing: what fails inside it is logged
CollectOutcomes == {Nil, "Failed"}

\* the content of the key file at path; the file may be empty
FileContent(path) == IF path = "empty.pub" THEN "" ELSE "ssh-rsa AAAA"

\* the debug access of an appliance: its SSH server, the authorized keys of
\* root and the password of root
ApplianceStates ==
    {[ssh |-> FALSE, keys |-> {}, rootpw |-> ""],
     [ssh |-> FALSE, keys |-> {"ssh-rsa OLD"}, rootpw |-> ""],
     [ssh |-> TRUE, keys |-> {"ssh-rsa AAAA"}, rootpw |-> "secret"]}

----------------------------------------------------------------------------
(* Debug.processParams and Debug.Run *)

Return(e) ==
    /\ ret' = e
    /\ pc' = "done"

\* mutant: Insecure is left as the caller set it
processParamsNotForced ==
    /\ pc = "processParams"
    /\ IF ~d.HasCredentials
       THEN /\ err' = Failure("HasCredentials", "Failed")
            /\ Return(ErrCredentials)
       ELSE /\ err' = NoError
            /\ pc' = "CheckArgs"
            /\ ret' = ret
    /\ UNCHANGED <<d, args, ctx, logLevel, vch, vchConfig, key, calls>>
    /\ UNCHANGED <<appliance, endpoints, runs>>

\* processParams, and Run's return of its error
processParams ==
    /\ pc = "processParams"
    /\ IF ~d.HasCredentials
       THEN /\ err' = Failure("HasCredentials", "Failed")
            /\ Return(ErrCredentials)
            /\ d' = d
       ELSE /\ d' = [d EXCEPT !.Insecure = TRUE]
            /\ err' = NoError
            /\ pc' = "CheckArgs"
            /\ ret' = ret
    /\ UNCHANGED <<args, ctx, logLevel, vch, vchConfig, key, calls>>
    /\ UNCHANGED <<appliance, endpoints, runs>>

\* the log level, the check of the arguments and the context
CheckArgs ==
    /\ pc = "CheckArgs"
    /\ logLevel' = IF d.Debug > 0 THEN "debug" ELSE logLevel
    /\ IF Len(args) > 0
       THEN /\ Return(ErrInvalidArgs)
            /\ ctx' = ctx
       ELSE /\ ctx' = WithTimeout(d.Timeout)
            /\ pc' = "CallNewValidator"
            /\ ret' = ret
    /\ UNCHANGED <<d, args, err, vch, vchConfig, key, calls>>
    /\ UNCHANGED <<appliance, endpoints, runs>>

CallNewValidator ==
    /\ pc = "CallNewValidator"
    /\ calls' = Append(calls, Call("NewValidator", <<BoolStr(d.Insecure)>>, Pending))
    /\ pc' = "NewValidator"
    /\ UNCHANGED <<d, args, ctx, logLevel, err, vch, vchConfig, key, ret>>
    /\ UNCHANGED <<appliance, endpoints, runs>>

\* mutant: the error of NewValidator is not checked
ReturnNewValidatorUnchecked ==
    /\ pc = "NewValidator"
    /\ \E o \in Outcomes :
        /\ calls' = Returned(o)
        /\ err' = IF o # Nil THEN Failure("NewValidator", o) ELSE NoError
        /\ pc' = "CallResolve"
    /\ UNCHANGED <<d, args, ctx, logLevel, vch, vchConfig, key, ret>>
    /\ UNCHANGED <<appliance, endpoints, runs>>

ReturnNewValidator ==
    /\ pc = "NewValidator"
    /\ \E o \in Outcomes :
        /\ calls' = Returned(o)
        /\ IF o # Nil
           THEN /\ err' = Failure("NewValidator", o)
                /\ Return(ErrDebugFailed)
           ELSE /\ err' = NoError
                /\ pc' = "CallResolve"
                /\ ret' = ret
    /\ UNCHANGED <<d, args, ctx, logLevel, vch, vchConfig, key>>
    /\ UNCHANGED <<appliance, endpoints, runs>>

\* mutant: the compute path is preferred to the ID
LookupPathFirst ==
    IF d.ComputeResourcePath # "" \/ d.ID = ""
    THEN Call("NewVCHFromComputePath",
              <<d.ComputeResourcePath, d.DisplayName>>, Pending)
    ELSE Call("NewVCHFromID", <<d.ID>>, Pending)

\* the lookup Run chooses for the selector
Lookup ==
    IF d.ID # ""
    THEN Call("NewVCHFromID", <<d.ID>>, Pending)
    ELSE Call("NewVCHFromComputePath",
              <<d.ComputeResourcePath, d.DisplayName>>, Pending)

CallResolve ==
    /\ pc = "CallResolve"
    /\ calls' = Append(calls, Lookup)
    /\ pc' = "Resolve"
    /\ UNCHANGED <<d, args, ctx, logLevel, err, vch, vchConfig, key, ret>>
    /\ UNCHANGED <<appliance, endpoints, runs>>

\* mutant: the error of the lookup is not checked
ReturnResolveUnchecked ==
    /\ pc = "Resolve"
    /\ \E r \in LookupOutcomes :
        /\ calls' = Returned(IF r.o = "Failed" THEN "NotFound" ELSE r.o)
        /\ err' = IF r.o # Nil
                  THEN Failure(calls[Len(calls)].fn,
                               IF r.o = "Failed" THEN "NotFound" ELSE r.o)
                  ELSE NoError
        /\ vch' = [matches |-> r.n, ref |-> IF r.o # Nil THEN Nil ELSE "vm-1"]
        /\ pc' = "CallGetVCHConfig"
    /\ UNCHANGED <<d, args, ctx, logLevel, vchConfig, key, ret>>
    /\ UNCHANGED <<appliance, endpoints, runs>>

\* mutant: the error of the lookup is returned as it is
ReturnResolveRawError ==
    /\ pc = "Resolve"
    /\ \E r \in LookupOutcomes :
        /\ calls' = Returned(IF r.o = "Failed" THEN "NotFound" ELSE r.o)
        /\ IF r.o # Nil
           THEN /\ err' = Failure(calls[Len(calls)].fn,
                                  IF r.o = "Failed" THEN "NotFound" ELSE r.o)
                /\ vch' = [matches |-> r.n, ref |-> Nil]
                /\ Return(IF r.o = "Failed" THEN "NotFound" ELSE r.o)
           ELSE /\ err' = NoError
                /\ vch' = [matches |-> r.n, ref |-> "vm-1"]
                /\ pc' = "CallGetVCHConfig"
                /\ ret' = ret
    /\ UNCHANGED <<d, args, ctx, logLevel, vchConfig, key>>
    /\ UNCHANGED <<appliance, endpoints, runs>>

ReturnResolve ==
    /\ pc = "Resolve"
    /\ \E r \in LookupOutcomes :
        /\ calls' = Returned(IF r.o = "Failed" THEN "NotFound" ELSE r.o)
        /\ IF r.o # Nil
           THEN /\ err' = Failure(calls[Len(calls)].fn,
                                  IF r.o = "Failed" THEN "NotFound" ELSE r.o)
                /\ vch' = [matches |-> r.n, ref |-> Nil]
                /\ Return(ErrDebugFailed)
           ELSE /\ err' = NoError
                /\ vch' = [matches |-> r.n, ref |-> "vm-1"]
                /\ pc' = "CallGetVCHConfig"
                /\ ret' = ret
    /\ UNCHANGED <<d, args, ctx, logLevel, vchConfig, key>>
    /\ UNCHANGED <<appliance, endpoints, runs>>

CallGetVCHConfig ==
    /\ pc = "CallGetVCHConfig"
    /\ calls' = Append(calls, Call("GetVCHConfig", <<vch.ref>>, Pending))
    /\ pc' = "GetVCHConfig"
    /\ UNCHANGED <<d, args, ctx, logLevel, err, vch, vchConfig, key, ret>>
    /\ UNCHANGED <<appliance, endpoints, runs>>

\* mutant: the error of GetVCHConfig is not checked
ReturnGetVCHConfigUnchecked ==
    /\ pc = "GetVCHConfig"
    /\ \E o \in Outcomes :
        /\ calls' = Returned(o)
        /\ err' = IF o # Nil THEN Failure("GetVCHConfig", o) ELSE NoError
        /\ vchConfig' = Snapshot(appliance)
        /\ pc' = "InitDiagnosticLogs"
    /\ UNCHANGED <<d, args, ctx, logLevel, vch, key, ret>>
    /\ UNCHANGED <<appliance, endpoints, runs>>

\* mutant: a failed GetVCHConfig takes the failure path of DebugVCH
ReturnGetVCHConfigCollects ==
    /\ pc = "GetVCHConfig"
    /\ \E o \in Outcomes :
        /\ calls' = Returned(o)
        /\ IF o # Nil
           THEN /\ err' = Failure("GetVCHConfig", o)
                /\ vchConfig' = Nil
                /\ pc' = "DebugFailed"
           ELSE /\ err' = NoError
                /\ vchConfig' = Snapshot(appliance)
                /\ pc' = "InitDiagnosticLogs"
    /\ UNCHANGED <<d, args, ctx, logLevel, vch, key, ret>>
    /\ UNCHANGED <<appliance, endpoints, runs>>

ReturnGetVCHConfig ==
    /\ pc = "GetVCHConfig"
    /\ \E o \in Outcomes :
        /\ calls' = Returned(o)
        /\ IF o # Nil
           THEN /\ err' = Failure("GetVCHConfig", o)
                /\ vchConfig' = Nil
                /\ Return(ErrDebugFailed)
           ELSE /\ err' = NoError
                /\ vchConfig' = Snapshot(appliance)
                /\ pc' = "InitDiagnosticLogs"
                /\ ret' = ret
    /\ UNCHANGED <<d, args, ctx, logLevel, vch, key>>
    /\ UNCHANGED <<appliance, endpoints, runs>>

InitDiagnosticLogs ==
    /\ pc = "InitDiagnosticLogs"
    /\ calls' = Append(calls, Call("InitDiagnosticLogs", <<vchConfig>>, Nil))
    /\ pc' = "LoadKey"
    /\ UNCHANGED <<d, args, ctx, logLevel, err, vch, vchConfig, key, ret>>
    /\ UNCHANGED <<appliance, endpoints, runs>>

\* mutant: the error of ReadFile is not checked
LoadKeyUnchecked ==
    /\ pc = "LoadKey"
    /\ IF d.authorizedKey # ""
       THEN \E ok \in BOOLEAN :
                /\ calls' = Append(calls, Call("ReadFile", <<d.authorizedKey>>,
                                               IF ok THEN Nil ELSE "Failed"))
                /\ key' = IF ok THEN FileContent(d.authorizedKey) ELSE ""
                /\ err' = IF ok THEN NoError ELSE Failure("ReadFile", "Failed")
       ELSE UNCHANGED <<key, err, calls>>
    /\ pc' = "CallDebugVCH"
    /\ UNCHANGED <<d, args, ctx, logLevel, vch, vchConfig, ret>>
    /\ UNCHANGED <<appliance, endpoints, runs>>

\* load the key file if set; ioutil.ReadFile runs outside the context
LoadKey ==
    /\ pc = "LoadKey"
    /\ IF d.authorizedKey # ""
       THEN \E ok \in BOOLEAN :
                IF ok
                THEN /\ calls' = Append(calls, Call("ReadFile", <<d.authorizedKey>>, Nil))
                     /\ key' = FileContent(d.authorizedKey)
                     /\ err' = NoError
                     /\ pc' = "CallDebugVCH"
                     /\ ret' = ret
                ELSE /\ calls' = Append(calls, Call("ReadFile", <<d.authorizedKey>>, "Failed"))
                     /\ key' = ""
                     /\ err' = Failure("ReadFile", "Failed")
                     /\ Return(ErrLoadKey)
       ELSE /\ pc' = "CallDebugVCH"
            /\ UNCHANGED <<key, err, calls, ret>>
    /\ UNCHANGED <<d, args, ctx, logLevel, vch, vchConfig>>
    /\ UNCHANGED <<appliance, endpoints, runs>>

\* mutant: the path of the key file is passed for its content
CallDebugVCHKeyPath ==
    /\ pc = "CallDebugVCH"
    /\ calls' = Append(calls, Call("DebugVCH",
                                   <<vch.ref, vchConfig, d.password, d.authorizedKey>>,
                                   Pending))
    /\ pc' = "DebugVCH"
    /\ UNCHANGED <<d, args, ctx, logLevel, err, vch, vchConfig, key, ret>>
    /\ UNCHANGED <<appliance, endpoints, runs>>

CallDebugVCH ==
    /\ pc = "CallDebugVCH"
    /\ calls' = Append(calls, Call("DebugVCH",
                                   <<vch.ref, vchConfig, d.password, key>>, Pending))
    /\ pc' = "DebugVCH"
    /\ UNCHANGED <<d, args, ctx, logLevel, err, vch, vchConfig, key, ret>>
    /\ UNCHANGED <<appliance, endpoints, runs>>

\* mutant: InspectVCH is called whatever DebugVCH returned
ReturnDebugVCHUnchecked ==
    /\ pc = "DebugVCH"
    /\ \E o \in Outcomes :
        /\ calls' = Returned(o)
        /\ err' = IF o # Nil THEN Failure("DebugVCH", o) ELSE NoError
        /\ pc' = "CallInspectVCH"
        /\ appliance' \in AfterDebugVCH(appliance, calls[Len(calls)], o)
    /\ UNCHANGED <<d, args, ctx, logLevel, vch, vchConfig, key, ret>>
    /\ UNCHANGED <<endpoints, runs>>

ReturnDebugVCH ==
    /\ pc = "DebugVCH"
    /\ \E o \in Outcomes :
        /\ calls' = Returned(o)
        /\ err' = IF o # Nil THEN Failure("DebugVCH", o) ELSE NoError
        /\ pc' = IF o # Nil THEN "DebugFailed" ELSE "CallInspectVCH"
        /\ appliance' \in AfterDebugVCH(appliance, calls[Len(calls)], o)
    /\ UNCHANGED <<d, args, ctx, logLevel, vch, vchConfig, key, ret>>
    /\ UNCHANGED <<endpoints, runs>>

\* mutant: the failure of DebugVCH is returned without collecting
CollectAfterDebugVCHSkipped ==
    /\ pc = "DebugFailed"
    /\ pc' = "ReturnDebugFailed"
    /\ UNCHANGED <<d, args, ctx, logLevel, err, vch, vchConfig, key, calls, ret>>
    /\ UNCHANGED <<appliance, endpoints, runs>>

\* DebugVCH failed: collect the diagnostic logs ...
CollectAfterDebugVCH ==
    /\ pc = "DebugFailed"
    /\ \E r \in CollectOutcomes : calls' = Append(calls, Call(Collect, <<>>, r))
    /\ pc' = "ReturnDebugFailed"
    /\ UNCHANGED <<d, args, ctx, logLevel, err, vch, vchConfig, key, ret>>
    /\ UNCHANGED <<appliance, endpoints, runs>>

\* the error Run returns when DebugVCH failed
DebugFailedResult == ErrDebugFailed

\* ... then return the error
ReturnDebugFailed ==
    /\ pc = "ReturnDebugFailed"
    /\ Return(DebugFailedResult)
    /\ UNCHANGED <<d, args, ctx, logLevel, err, vch, vchConfig, key, calls>>
    /\ UNCHANGED <<appliance, endpoints, runs>>

CallInspectVCH ==
    /\ pc = "CallInspectVCH"
    /\ calls' = Append(calls, Call("InspectVCH", <<vch.ref, vchConfig>>, Pending))
    /\ pc' = "InspectVCH"
    /\ UNCHANGED <<d, args, ctx, logLevel, err, vch, vchConfig, key, ret>>
    /\ UNCHANGED <<appliance, endpoints, runs>>

\* mutant: the endpoints reported are those of the configuration passed
ReturnInspectVCHStale ==
    /\ pc = "InspectVCH"
    /\ \E o \in Outcomes :
        /\ calls' = Returned(o)
        /\ IF o # Nil
           THEN /\ err' = Failure("InspectVCH", o)
                /\ pc' = "InspectFailed"
                /\ UNCHANGED <<ret, endpoints>>
           ELSE /\ err' = NoError
                /\ endpoints' = calls[Len(calls)].args[2].endpoints
                /\ Return(Nil)
    /\ UNCHANGED <<d, args, ctx, logLevel, vch, vchConfig, key>>
    /\ UNCHANGED <<appliance, runs>>

\* mutant: a failed InspectVCH is tried again
ReturnInspectVCHRetried ==
    /\ pc = "InspectVCH"
    /\ \E o \in Outcomes :
        /\ calls' = Returned(o)
        /\ IF o # Nil
           THEN /\ err' = Failure("InspectVCH", o)
                /\ pc' = "CallInspectVCH"
                /\ UNCHANGED <<ret, endpoints>>
           ELSE /\ err' = NoError
                /\ endpoints' = Endpoints(appliance)
                /\ Return(Nil)
    /\ UNCHANGED <<d, args, ctx, logLevel, vch, vchConfig, key>>
    /\ UNCHANGED <<appliance, runs>>

ReturnInspectVCH ==
    /\ pc = "InspectVCH"
    /\ \E o \in Outcomes :
        /\ calls' = Returned(o)
        /\ IF o # Nil
           THEN /\ err' = Failure("InspectVCH", o)
                /\ pc' = "InspectFailed"
                /\ UNCHANGED <<ret, endpoints>>
           ELSE /\ err' = NoError
                /\ endpoints' = Endpoints(appliance)
                /\ Return(Nil)
    /\ UNCHANGED <<d, args, ctx, logLevel, vch, vchConfig, key>>
    /\ UNCHANGED <<appliance, runs>>

\* mutant: the failure of InspectVCH is returned without collecting
CollectAfterInspectVCHSkipped ==
    /\ pc = "InspectFailed"
    /\ pc' = "ReturnInspectFailed"
    /\ UNCHANGED <<d, args, ctx, logLevel, err, vch, vchConfig, key, calls, ret>>
    /\ UNCHANGED <<appliance, endpoints, runs>>

\* InspectVCH failed: collect the diagnostic logs ...
CollectAfterInspectVCH ==
    /\ pc = "InspectFailed"
    /\ \E r \in CollectOutcomes : calls' = Append(calls, Call(Collect, <<>>, r))
    /\ pc' = "ReturnInspectFailed"
    /\ UNCHANGED <<d, args, ctx, logLevel, err, vch, vchConfig, key, ret>>
    /\ UNCHANGED <<appliance, endpoints, runs>>

\* mutant: the failure of InspectVCH is returned as the failure of DebugVCH
InspectFailedResultAsDebug == DebugFailedResult

\* the error Run returns when InspectVCH failed
InspectFailedResult == ErrInspectFailed

\* mutant: a failure inside the collection replaces the error of InspectVCH
ReturnInspectFailedMasked ==
    /\ pc = "ReturnInspectFailed"
    /\ Return(IF calls[Len(calls)].result # Nil
              THEN "collect failed" ELSE InspectFailedResult)
    /\ UNCHANGED <<d, args, ctx, logLevel, err, vch, vchConfig, key, calls>>
    /\ UNCHANGED <<appliance, endpoints, runs>>

\* ... then return the error
ReturnInspectFailed ==
    /\ pc = "ReturnInspectFailed"
    /\ Return(InspectFailedResult)
    /\ UNCHANGED <<d, args, ctx, logLevel, err, vch, vchConfig, key, calls>>
    /\ UNCHANGED <<appliance, endpoints, runs>>

Init ==
    /\ d \in [ID : IDs, ComputeResourcePath : ComputePaths,
              DisplayName : DisplayNames, HasCredentials : BOOLEAN,
              Insecure : BOOLEAN, Debug : 0..MaxDebug, Timeout : 0..MaxTimeout,
              enableSSH : BOOLEAN, password : Passwords,
              authorizedKey : KeyPaths]
    /\ args \in UNION {[1..n -> {"extra"}] : n \in 0..MaxArgs}
    /\ pc = "processParams"
    /\ ctx = NoContext
    /\ logLevel = "info"
    /\ err = NoError
    /\ vch = [matches |-> 0, ref |-> Nil]
    /\ vchConfig = Nil
    /\ key = ""
    /\ calls = <<>>
    /\ ret = NotReturned
    /\ appliance \in ApplianceStates
    /\ endpoints = {}
    /\ runs = <<>>

Next ==
    \/ processParams
    \/ CheckArgs
    \/ CallNewValidator
    \/ ReturnNewValidator
    \/ CallResolve
    \/ ReturnResolve
    \/ CallGetVCHConfig
    \/ ReturnGetVCHConfig
    \/ InitDiagnosticLogs
    \/ LoadKey
    \/ CallDebugVCH
    \/ ReturnDebugVCH
    \/ CollectAfterDebugVCH
    \/ ReturnDebugFailed
    \/ CallInspectVCH
    \/ ReturnInspectVCH
    \/ CollectAfterInspectVCH
    \/ ReturnInspectFailed
    \/ Tick

Spec == Init /\ [][Next]_vars

\* the caller runs the command again with the same request, against the
\* appliance as the run before left it
Rerun ==
    /\ pc = "done"
    /\ Len(runs) + 1 < MaxRuns
    /\ runs' = Append(runs, [ret |-> ret, err |-> err, appliance |-> appliance,
                              endpoints |-> endpoints])
    /\ pc' = "processParams"
    /\ ctx' = NoContext
    /\ logLevel' = "info"
    /\ err' = NoError
    /\ vch' = [matches |-> 0, ref |-> Nil]
    /\ vchConfig' = Nil
    /\ key' = ""
    /\ calls' = <<>>
    /\ ret' = NotReturned
    /\ endpoints' = {}
    /\ UNCHANGED <<d, args, appliance>>

NextRuns ==
    \/ Next
    \/ Rerun

\* the requests that pass the checks of processParams and of the arguments,
\* with a timeout of one tick
InitRuns ==
    /\ Init
    /\ d.HasCredentials
    /\ ~d.Insecure
    /\ d.Debug = 0
    /\ d.Timeout = 1
    /\ args = <<>>
    /\ \/ d.ID # "" /\ d.ComputeResourcePath = "" /\ d.DisplayName = ""
       \/ d.ID = "" /\ d.ComputeResourcePath # "" /\ d.DisplayName # ""

SpecRuns == InitRuns /\ [][NextRuns]_vars

----------------------------------------------------------------------------
(* Properties of one run *)

\* fn was called; the number of calls of fn
Called(fn) == \E i \in DOMAIN calls : calls[i].fn = fn

Count(fn) == Cardinality({i \in DOMAIN calls : calls[i].fn = fn})

\* the steps whose failure is followed by the collection of diagnostic logs
Steps == {"DebugVCH", "InspectVCH"}

\* the call of fn that returned r
CallReturned(fn, r) ==
    \E i \in DOMAIN calls : calls[i].fn = fn /\ calls[i].result = r

\* the call of fn that returned an error
CallFailed(fn) ==
    \E i \in DOMAIN calls : calls[i].fn = fn /\ calls[i].result \notin {Nil, Pending}

\* the names of the calls made, in order
CallNames == [i \in DOMAIN calls |-> calls[i].fn]

\* C1: the diagnostic logs are collected if and only if the run ends in a
\* failure of DebugVCH or of InspectVCH (a timeout during one of them
\* included); they are never collected in a run that ends in an input error,
\* a validation failure, a resolution failure or success.
C1_CollectIffConfigureOrInspectFailed ==
    /\ Called(Collect) => err.fn \in Steps
    /\ pc = "done" => (Called(Collect) <=> err.fn \in Steps)
    /\ (pc = "done" /\ ret \in {Nil, ErrCredentials, ErrInvalidArgs, ErrLoadKey})
          => ~Called(Collect)
    /\ (pc = "done" /\ err.fn \in {"NewValidator", "GetVCHConfig"} \cup Lookups)
          => ~Called(Collect)

C1_Witness ==
    /\ pc = "done"
    /\ Called(Collect)
    /\ err = Failure("InspectVCH", "DeadlineExceeded")

\* C2: when DebugVCH fails, the diagnostic logs are collected exactly once and
\* before the error is returned, Run returns the configuration failure, and
\* InspectVCH is never called.
C2_ConfigureFailureCollectsOnce ==
    CallFailed("DebugVCH") =>
        /\ ~Called("InspectVCH")
        /\ Count(Collect) <= 1
        /\ pc = "DebugFailed" => (Count(Collect) = 0 /\ ret = NotReturned)
        /\ pc = "ReturnDebugFailed" => (Count(Collect) = 1 /\ ret = NotReturned)
        /\ ret # NotReturned =>
              /\ Count(Collect) = 1
              /\ calls[Len(calls)].fn = Collect
              /\ ret = ErrDebugFailed
              /\ err.fn = "DebugVCH" /\ CallReturned("DebugVCH", err.cause)

C2_Witness ==
    /\ pc = "done"
    /\ CallReturned("DebugVCH", "Failed")
    /\ Count(Collect) = 1
    /\ ret = ErrDebugFailed

\* C3: when the lookup fails because the selector matches no appliance or
\* more than one, the run ends in the resolution failure and GetVCHConfig,
\* DebugVCH and InspectVCH are not called in it.
C3_ResolutionFailureBeforeConfiguration ==
    (\E fn \in Lookups : CallReturned(fn, "NotFound")) =>
        /\ vch.matches # 1
        /\ pc = "done"
        /\ ret = ErrDebugFailed
        /\ err.fn \in Lookups /\ err.cause = "NotFound"
        /\ calls[Len(calls)].fn \in Lookups
        /\ ~Called("GetVCHConfig")
        /\ ~Called("InitDiagnosticLogs")
        /\ ~Called("DebugVCH")
        /\ ~Called("InspectVCH")

C3_Witness ==
    /\ pc = "done"
    /\ CallReturned("NewVCHFromComputePath", "NotFound")
    /\ vch.matches = 2

\* C4: InspectVCH is called only after DebugVCH was called in the same run
\* and returned no error.
C4_InspectOnlyAfterConfigureSucceeded ==
    /\ \A i \in DOMAIN calls :
          calls[i].fn = "InspectVCH" =>
              \E j \in 1..(i - 1) :
                  calls[j].fn = "DebugVCH" /\ calls[j].result = Nil
    /\ pc \in {"CallInspectVCH", "InspectVCH"} => CallReturned("DebugVCH", Nil)

C4_Witness ==
    /\ pc = "InspectVCH"
    /\ calls[Len(calls)] = Call("InspectVCH", <<vch.ref, vchConfig>>, Pending)

\* C5: when InspectVCH fails after DebugVCH succeeded, the diagnostic logs
\* are collected exactly once and Run returns an inspection failure that
\* differs from what it returns when DebugVCH fails.
C5_InspectFailureCollectsOnceDistinct ==
    CallFailed("InspectVCH") =>
        /\ CallReturned("DebugVCH", Nil)
        /\ Count(Collect) <= 1
        /\ ret # NotReturned =>
              /\ Count(Collect) = 1
              /\ ret = ErrInspectFailed
              /\ ret # DebugFailedResult

C5_Witness ==
    /\ pc = "done"
    /\ CallReturned("InspectVCH", "Failed")
    /\ CallReturned("DebugVCH", Nil)
    /\ ret = ErrInspectFailed

\* C6: with an empty ID and an empty compute path and display name, the run
\* ends in an input error before any remote call: neither NewValidator nor a
\* lookup is called.
C6_EmptySelectorRejectedBeforeRemoteCall ==
    (d.ID = "" /\ d.ComputeResourcePath = "" /\ d.DisplayName = "") =>
        /\ ~Called("NewValidator")
        /\ \A fn \in Lookups : ~Called(fn)
        /\ pc = "done" => ret \in {ErrCredentials, ErrInvalidArgs}

\* C7: the lookup is by ID if and only if the ID is not empty, and then the
\* compute path and the display name are no part of the call; the lookup by
\* compute path and display name is made only with an empty ID; a run that
\* reaches the resolution makes exactly one of the two lookups.
C7_LookupByIDIffIDPresent ==
    /\ \A i \in DOMAIN calls :
          /\ calls[i].fn = "NewVCHFromID" =>
                (d.ID # "" /\ calls[i].args = <<d.ID>>)
          /\ calls[i].fn = "NewVCHFromComputePath" =>
                (d.ID = "" /\ calls[i].args = <<d.ComputeResourcePath, d.DisplayName>>)
    /\ Count("NewVCHFromID") + Count("NewVCHFromComputePath") <= 1
    /\ (CallReturned("NewValidator", Nil) /\ pc # "CallResolve") =>
          /\ Count("NewVCHFromID") + Count("NewVCHFromComputePath") = 1
          /\ Called("NewVCHFromID") <=> d.ID # ""

C7_Witness ==
    /\ pc = "done"
    /\ Called("NewVCHFromID")
    /\ d.ComputeResourcePath # ""
    /\ d.DisplayName # ""

\* C8: when the deadline passes before NewValidator has returned, the run
\* ends in the failure of the validation, and no lookup, GetVCHConfig,
\* DebugVCH, InspectVCH or collection of diagnostic logs is called in it.
C8_TimeoutBeforeValidateCompletes ==
    ctx.expiredAt \in {"WithTimeout", "CallNewValidator", "NewValidator"} =>
        /\ pc \in {"CallNewValidator", "NewValidator", "done"}
        /\ \A fn \in Lookups \cup {"GetVCHConfig", "DebugVCH", "InspectVCH", Collect} :
              ~Called(fn)
        /\ pc = "done" =>
              /\ ret = ErrDebugFailed
              /\ err = Failure("NewValidator", "DeadlineExceeded")

C8_Witness ==
    /\ pc = "done"
    /\ ctx.expiredAt = "NewValidator"
    /\ ret = ErrDebugFailed

\* the positions of Run at which a step that runs under the context is in
\* flight, and the calls in flight there
InFlight == {"NewValidator", "Resolve", "GetVCHConfig", "DebugVCH", "InspectVCH"}
StepFns(p) == IF p = "Resolve" THEN Lookups ELSE {p}

\* C9: when the deadline passes while a step is in flight, the step aborts,
\* no later step is started, the run ends in the failure of that step, and
\* the diagnostic logs are collected exactly when the step was DebugVCH or
\* InspectVCH.
C9_TimeoutInFlightAbortsStep ==
    ctx.expiredAt \in InFlight =>
        LET fns == StepFns(ctx.expiredAt) IN
        /\ \E i \in DOMAIN calls :
              /\ calls[i].fn \in fns
              /\ calls[i].result \in {Pending, "DeadlineExceeded"}
              /\ \A j \in (i + 1)..Len(calls) : calls[j].fn = Collect
        /\ pc = "done" =>
              /\ err.fn \in fns
              /\ err.cause = "DeadlineExceeded"
              /\ ret = IF ctx.expiredAt = "InspectVCH"
                       THEN ErrInspectFailed ELSE ErrDebugFailed
              /\ Count(Collect) = IF ctx.expiredAt \in Steps THEN 1 ELSE 0

C9_Witness ==
    /\ pc = "done"
    /\ ctx.expiredAt = "DebugVCH"
    /\ Count(Collect) = 1

IndexOf(fn) ==
    IF Called(fn) THEN CHOOSE i \in DOMAIN calls : calls[i].fn = fn ELSE 0

\* C11: the configuration handed to InspectVCH was fetched after DebugVCH
\* had returned: a GetVCHConfig call lies between the two.
C11_InspectGetsRefetchedSnapshot ==
    \A i \in DOMAIN calls :
        calls[i].fn = "InspectVCH" =>
            \E j \in 1..(i - 1) :
                /\ calls[j].fn = "GetVCHConfig"
                /\ calls[j].result = Nil
                /\ IndexOf("DebugVCH") < j

\* the four steps of the workflow, in their order
StepRank(fn) ==
    CASE fn = "NewValidator" -> 1
      [] fn \in Lookups -> 2
      [] fn = "DebugVCH" -> 3
      [] fn = "InspectVCH" -> 4
      [] OTHER -> 0

\* C12: in a run each of Validate, Resolve, Configure and Inspect is called at
\* most once and only in that order; after a call has failed no call is made
\* but the collection of diagnostic logs, and the run goes to its failure.
C12_StepsOnceInOrderNoRetry ==
    /\ \A i, j \in DOMAIN calls :
          (i < j /\ StepRank(calls[i].fn) > 0 /\ StepRank(calls[j].fn) > 0)
              => StepRank(calls[i].fn) < StepRank(calls[j].fn)
    /\ \A i \in DOMAIN calls :
          (calls[i].fn # Collect /\ calls[i].result \notin {Nil, Pending}) =>
              /\ \A j \in (i + 1)..Len(calls) : calls[j].fn = Collect
              /\ pc \in {"DebugFailed", "ReturnDebugFailed", "InspectFailed",
                         "ReturnInspectFailed", "done"}
              /\ ret \notin {Nil}

C12_Witness ==
    /\ pc = "done"
    /\ ret = ErrInspectFailed
    /\ \A r \in 1..4 :
          Cardinality({i \in DOMAIN calls : StepRank(calls[i].fn) = r}) = 1

\* the calls a successful run needs
AllSucceeded ==
    /\ CallReturned("NewValidator", Nil)
    /\ \E fn \in Lookups : CallReturned(fn, Nil)
    /\ CallReturned("GetVCHConfig", Nil)
    /\ d.authorizedKey # "" => CallReturned("ReadFile", Nil)
    /\ CallReturned("DebugVCH", Nil)
    /\ CallReturned("InspectVCH", Nil)
    /\ \A i \in DOMAIN calls : calls[i].fn # Collect => calls[i].result = Nil

\* C13: Run returns nil if and only if the validation, the lookup, the fetch
\* of the configuration, the reading of the key file when one is given,
\* DebugVCH and InspectVCH all succeeded; with no key and no password the run
\* can succeed, and DebugVCH is called with an empty password and key.
C13_SuccessIffAllStepsSucceeded ==
    /\ ret = Nil <=> (pc = "done" /\ AllSucceeded)
    /\ (d.password = "" /\ d.authorizedKey = "") =>
          \A i \in DOMAIN calls :
              calls[i].fn = "DebugVCH" =>
                  calls[i].args = <<vch.ref, vchConfig, "", "">>

C13_Witness ==
    /\ pc = "done"
    /\ ret = Nil
    /\ d.ID = "vch-42" /\ d.enableSSH
    /\ d.password = "" /\ d.authorizedKey = ""
    /\ calls[IndexOf("DebugVCH")].args = <<vch.ref, vchConfig, "", "">>

\* the kind of failure the error of the call fn is
Kind(fn) ==
    CASE fn = "NewValidator" -> "validation"
      [] fn \in Lookups -> "resolution"
      [] fn = "DebugVCH" -> "configuration"
      [] fn = "InspectVCH" -> "inspection"
      [] OTHER -> "other"

FailureKinds == {"validation", "resolution", "configuration", "inspection"}

InsecureForced ==
    /\ \A i \in DOMAIN calls :
          calls[i].fn = "NewValidator" =>
              /\ calls[i].args = <<"true">>
              /\ d.Insecure
              /\ d.HasCredentials
    /\ ~d.HasCredentials =>
          /\ ~Called("NewValidator")
          /\ pc \in {"processParams", "done"}
          /\ pc = "done" => ret = ErrCredentials

\* C15: NewValidator is always called with Insecure set, whatever the caller
\* supplied; Insecure is set only by processParams and only once
\* HasCredentials has passed, and a run whose HasCredentials fails ends before
\* NewValidator is called.
C15_InsecureForcedAfterCredentials ==
    /\ []InsecureForced
    /\ [][d' # d => /\ pc = "processParams"
                    /\ d.HasCredentials
                    /\ d' = [d EXCEPT !.Insecure = TRUE]]_vars

C15_Witness ==
    /\ pc = "NewValidator"
    /\ calls[1] = Call("NewValidator", <<"true">>, Pending)
    /\ d.Insecure

\* C16: the collection of diagnostic logs does not change the outcome: where
\* it is called, the run returns the failure of the step that was followed
\* by it, whether the collection itself succeeded or failed.
C16_CollectionKeepsOutcome ==
    \A i \in DOMAIN calls :
        calls[i].fn = Collect =>
            /\ calls[i].result \in CollectOutcomes
            /\ i > 1
            /\ calls[i - 1].fn \in Steps
            /\ err = Failure(calls[i - 1].fn, calls[i - 1].result)
            /\ pc = "done" =>
                  ret = IF calls[i - 1].fn = "DebugVCH"
                        THEN ErrDebugFailed ELSE ErrInspectFailed

C16_Witness ==
    /\ pc = "done"
    /\ CallReturned(Collect, "Failed")
    /\ err.fn = "InspectVCH"
    /\ ret = ErrInspectFailed

\* the key content of the request: the content of the key file, if one is given
KeyContent == IF d.authorizedKey = "" THEN "" ELSE FileContent(d.authorizedKey)

\* C17: with no key content (no key file, or an empty one) a successful run
\* leaves the authorized keys of root as they were; with key content the key
\* is among them after a successful run.  The key and the password of root
\* are applied independently of each other.
C17_KeyListFrame ==
    (pc = "done" /\ ret = Nil) =>
        LET pre == vchConfig.debug IN
        /\ key = KeyContent
        /\ KeyContent = "" => appliance.keys = pre.keys
        /\ KeyContent # "" => appliance.keys = pre.keys \cup {KeyContent}
        /\ d.password = "" => appliance.rootpw = pre.rootpw
        /\ d.password # "" => appliance.rootpw = d.password

C17_Witness ==
    /\ pc = "done"
    /\ ret = Nil
    /\ d.password = ""
    /\ KeyContent # ""
    /\ KeyContent \notin vchConfig.debug.keys
    /\ KeyContent \in appliance.keys
    /\ appliance.rootpw = vchConfig.debug.rootpw

InitLogs == "InitDiagnosticLogs"

\* C19: a collection of diagnostic logs is preceded in its run by exactly one
\* InitDiagnosticLogs, made with the configuration a successful GetVCHConfig
\* returned; InitDiagnosticLogs is not called when the lookup or
\* GetVCHConfig failed.
C19_CollectAfterOneInit ==
    /\ \A i \in DOMAIN calls :
          calls[i].fn = Collect =>
              /\ Count(InitLogs) = 1
              /\ IndexOf(InitLogs) < i
    /\ Called(InitLogs) =>
          /\ Count(InitLogs) = 1
          /\ \E fn \in Lookups : CallReturned(fn, Nil)
          /\ CallReturned("GetVCHConfig", Nil)
          /\ IndexOf("GetVCHConfig") < IndexOf(InitLogs)
          /\ calls[IndexOf(InitLogs)].args = <<vchConfig>>
    /\ ((\E fn \in Lookups : CallFailed(fn)) \/ CallFailed("GetVCHConfig"))
          => ~Called(InitLogs)

C19_Witness ==
    /\ pc = "done"
    /\ Called(Collect)
    /\ Count(InitLogs) = 1
    /\ calls[IndexOf(InitLogs)].args = <<Snapshot(vchConfig.debug)>>

\* C20: when the lookup succeeds and GetVCHConfig fails, the run ends in a
\* failure without InitDiagnosticLogs, without reading the key file, without
\* DebugVCH or InspectVCH and without collecting diagnostic logs.
C20_ConfigFetchFailureEndsRun ==
    CallFailed("GetVCHConfig") =>
        /\ \E fn \in Lookups : CallReturned(fn, Nil)
        /\ pc = "done"
        /\ ret = ErrDebugFailed
        /\ err.fn = "GetVCHConfig"
        /\ calls[Len(calls)].fn = "GetVCHConfig"
        /\ key = ""
        /\ \A fn \in {InitLogs, "ReadFile", "DebugVCH", "InspectVCH", Collect} :
              ~Called(fn)

C20_Witness ==
    /\ pc = "done"
    /\ CallReturned("GetVCHConfig", "Failed")
    /\ d.authorizedKey # ""
    /\ ret = ErrDebugFailed

====
